---- MODULE Spec2Model ----
(***************************************************************************)
(* E.D.I.T.H. voice/text assistant (src/EDITH.py): the session loop        *)
(* start_edith_cli, the command router inside it, the response resolver    *)
(* edith_analyze with the generative adapter EdithBrain.think, and the     *)
(* reminder list.  Strings are TLA+ strings; Python's str methods are      *)
(* operators computed character by character.                              *)
(***************************************************************************)
EXTENDS Integers, Sequences, FiniteSets, TLC

VARIABLES
    pc,            \* position of start_edith_cli: "listen", "dispatch", "stopped",
                   \* or "generating" while it is suspended in the await of line 92
    voice,         \* VOICE_ENABLED
    tts,           \* tts_engine is not None
    ready,         \* edith_brain.is_ready()
    reminders,     \* the module-level list `reminders`
    chat_history,  \* edith_brain.chat_history_ids, as the sequence of encoded inputs
    heard,         \* how the last listen_for_command call ended ("none" before the first)
    raw,           \* what was typed or transcribed in that call, before lower()/strip()
    command_line,  \* the value listen_for_command returned
    events,        \* what the handling of command_line did, in order
    stop,          \* why the loop ended ("" while it runs)
    inflight       \* the coroutine objects of edith_analyze that exist

vars == <<pc, voice, tts, ready, reminders, chat_history, heard, raw, command_line, events, stop,
          inflight>>

-----------------------------------------------------------------------------
(* Bounds of the model *)

MaxReminders == 2
MaxHistory == 1
MaxSpeakCalls == 2

-----------------------------------------------------------------------------
(* Python string methods *)

UpperToLower ==
    [A |-> "a", B |-> "b", C |-> "c", D |-> "d", E |-> "e", F |-> "f", G |-> "g",
     H |-> "h", I |-> "i", J |-> "j", K |-> "k", L |-> "l", M |-> "m", N |-> "n",
     O |-> "o", P |-> "p", Q |-> "q", R |-> "r", S |-> "s", T |-> "t", U |-> "u",
     V |-> "v", W |-> "w", X |-> "x", Y |-> "y", Z |-> "z"]

CharAt(s, i) == SubSeq(s, i, i)

LowerChar(c) == IF c \in DOMAIN UpperToLower THEN UpperToLower[c] ELSE c

RECURSIVE Lower(_)
Lower(s) ==
    IF s = "" THEN "" ELSE LowerChar(CharAt(s, 1)) \o Lower(SubSeq(s, 2, Len(s)))

IsSpace(c) == c \in {" ", "\t"}

RECURSIVE LStrip(_)
LStrip(s) ==
    IF s # "" /\ IsSpace(CharAt(s, 1)) THEN LStrip(SubSeq(s, 2, Len(s))) ELSE s

RECURSIVE RStrip(_)
RStrip(s) ==
    IF s # "" /\ IsSpace(CharAt(s, Len(s))) THEN RStrip(SubSeq(s, 1, Len(s) - 1)) ELSE s

Strip(s) == RStrip(LStrip(s))

Occurrences(s, sub) ==
    {i \in 1..(Len(s) - Len(sub) + 1) : SubSeq(s, i, i + Len(sub) - 1) = sub}

Contains(s, sub) == Occurrences(s, sub) # {}

Find(s, sub) ==
    LET occ == Occurrences(s, sub)
    IN  IF occ = {} THEN 0 ELSE CHOOSE i \in occ : \A j \in occ : i <= j

StartsWith(s, prefix) ==
    Len(prefix) <= Len(s) /\ SubSeq(s, 1, Len(prefix)) = prefix

\* s.split(sep, 1): one part when sep does not occur, else the text before and
\* after its first occurrence
SplitOnce(s, sep) ==
    LET i == Find(s, sep)
    IN  IF i = 0 THEN <<s>>
        ELSE <<SubSeq(s, 1, i - 1), SubSeq(s, i + Len(sep), Len(s))>>

RECURSIVE Replace(_, _, _)
Replace(s, old, new) ==
    IF s = "" THEN ""
    ELSE (IF CharAt(s, 1) = old THEN new ELSE CharAt(s, 1))
         \o Replace(SubSeq(s, 2, Len(s)), old, new)

IntToStr(i) == IF i = 100 THEN "100" ELSE IF i = 99 THEN "99" ELSE CharAt("0123456789", i + 1)

-----------------------------------------------------------------------------
(* Configuration *)

USER_PROFILE ==
    [name |-> "Devansh Prabhakar", location |-> "Mumbai",
     interests |-> <<"coding", "space exploration", "cybersecurity">>,
     status_level |-> "Optimal"]

OPENWEATHERMAP_API_KEY == "YOUR_OPENWEATHERMAP_API_KEY_HERE"

PROGRAMS ==
    [windows |-> [notepad |-> "notepad.exe", calculator |-> "calc.exe", paint |-> "mspaint.exe",
                  cmd |-> "cmd.exe", explorer |-> "explorer.exe"],
     darwin  |-> [safari |-> "Safari", notes |-> "Notes", calculator |-> "Calculator",
                  terminal |-> "Terminal"],
     linux   |-> [terminal |-> "gnome-terminal", calculator |-> "gnome-calculator",
                  browser |-> "firefox"]]

-----------------------------------------------------------------------------
(* What the environment does during the handling of one line *)

\* datetime.datetime.now(), in the three formats the handlers print
Now ==
    {[stamp |-> "2026-11-03 09:50", date |-> "Tuesday, 03 November 2026", time |-> "09:50 AM"]}

OsNames == {"windows", "darwin", "linux"}

ThinkFailures == {"none", "encode", "generate", "decode"}

\* what model.generate() answers
GeneratedReplies == {"I am not sure."}

EOS == "<|endoftext|>"

NoEnv ==
    [ttsFailAt |-> 0, browserFail |-> FALSE, popenFail |-> FALSE,
     thinkFail |-> "none", reply |-> "I am not sure.",
     clock |-> [k \in 1..2 |-> CHOOSE n \in Now : n.time = "09:50 AM"],
     os |-> "linux", rand |-> [k \in 1..2 |-> 100], choice |-> [k \in 1..2 |-> 1]]

-----------------------------------------------------------------------------
(* The values a handler works on: the two module-level stores, the log of  *)
(* what was done, the exception in flight ("none" when there is none) and  *)
(* the value returned by the last call                                      *)

Ev(kind, arg) == [kind |-> kind, arg |-> arg]

None == [iscoro |-> FALSE, text |-> ""]

Coroutine(text) == [iscoro |-> TRUE, text |-> text]

Value(text) == [iscoro |-> FALSE, text |-> text]

\* live: the coroutine objects that exist, the last created last, each running
\* or not yet awaited; susp: what the event loop sees while the call is
\* suspended in `await asyncio.to_thread(...)`, <<>> when it never was
Ctx(rem, hist) ==
    [reminders |-> rem, hist |-> hist, events |-> <<>>, exc |-> "none", ret |-> None,
     live |-> <<>>, susp |-> <<>>]

Log(m, kind, arg) == [m EXCEPT !.events = Append(@, Ev(kind, arg))]

Raise(m, e) == [m EXCEPT !.exc = e, !.ret = None]

Return(m, v) == [m EXCEPT !.ret = v]

Count(evs, kind) == Cardinality({i \in 1..Len(evs) : evs[i].kind = kind})

\* edith_analyze(text) evaluated: a coroutine object whose body has not begun
Created(m, text) == [m EXCEPT !.live = Append(@, [text |-> text, running |-> FALSE])]

\* `await` applied to the coroutine object created last: its body begins
Started(m) == [m EXCEPT !.live[Len(m.live)].running = TRUE]

\* the coroutine object created last is gone: its body returned or raised, or
\* its only reference, a temporary, was released before it was ever awaited
Dropped(m) == [m EXCEPT !.live = SubSeq(@, 1, Len(@) - 1)]

\* `await asyncio.to_thread(...)`: the running coroutines yield to the event loop
Suspended(m) == [m EXCEPT !.susp = <<[events |-> m.events, live |-> m.live]>>]

\* edith_speak: print, then say() and runAndWait() when there is an engine
edith_speak(m, text, env) ==
    LET printed == Return(Log(m, "speak", text), None)
    IN  IF tts /\ env.ttsFailAt = Count(printed.events, "speak")
        THEN Raise(printed, "RuntimeError: run loop already started")
        ELSE printed

webbrowser_open(m, url, env) ==
    IF env.browserFail
    THEN Raise(Log(m, "browser", url), "webbrowser.Error: could not locate runnable browser")
    ELSE Log(m, "browser", url)

tell_date_time(m, now, env) ==
    edith_speak(m, "The current date is **" \o now.date \o "**, and the time is **"
                   \o now.time \o "**.", env)

display_help(m) == Return(Log(m, "print", "Available Commands for E.D.I.T.H.:"), None)

open_website(m, url, env) ==
    LET spoken == edith_speak(m, "Executing web traversal to **" \o url \o "**.", env)
        full == IF ~StartsWith(url, "http") THEN "https://" \o url ELSE url
    IN  IF spoken.exc # "none" THEN spoken ELSE webbrowser_open(spoken, full, env)

open_application(m, app_name, env) ==
    LET app_name_processed == Strip(Lower(app_name))
        os_programs == PROGRAMS[env.os]
        known == app_name_processed \in DOMAIN os_programs
        attempt == edith_speak(m, "Attempting to interface with local application: **"
                                  \o app_name \o "**.", env)
        launched == Log(attempt, "popen", os_programs[app_name_processed])
    IN  IF ~known
        THEN edith_speak(m, "I don't have a configuration for the application '"
                            \o app_name \o "'.", env)
        ELSE IF attempt.exc # "none" THEN attempt
        ELSE IF env.popenFail
        THEN edith_speak(launched, "A critical error occurred while opening " \o app_name
                                   \o ": OSError", env)
        ELSE LET done == edith_speak(launched, "Affirmative. Opening " \o app_name \o ".", env)
             IN  \* the try block encloses this edith_speak as well
                 IF done.exc = "none" THEN done
                 ELSE edith_speak([done EXCEPT !.exc = "none"],
                                  "A critical error occurred while opening " \o app_name
                                  \o ": " \o done.exc, env)

open_target(m, target, env) ==
    IF Contains(target, ".") THEN open_website(m, target, env)
    ELSE open_application(m, target, env)

search_web(m, query, env) ==
    LET spoken == edith_speak(m, "Querying global information network for: **"
                                 \o query \o "**.", env)
    IN  IF spoken.exc # "none" THEN spoken
        ELSE webbrowser_open(spoken, "https://www.google.com/search?q="
                                     \o Replace(query, " ", "+"), env)

-----------------------------------------------------------------------------
(* The response resolver *)

OfflineMessage == "My advanced conversational matrix is offline. I cannot process the query."

InferenceErrorPrefix == "A critical error occurred during AI inference: "

\* EdithBrain.think: the reply in ret, or the exception in exc
think(m, user_input, env) ==
    LET called == Log(m, "think", user_input)
        exchange == [user |-> user_input \o EOS, bot |-> env.reply]
        awaited == Suspended(called)
        generated == [awaited EXCEPT !.hist = Append(@, exchange)]
    IN  IF ~ready THEN Return(called, Value(OfflineMessage))
        ELSE IF env.thinkFail = "encode" THEN Raise(called, "tokenizer.encode failed")
        ELSE IF env.thinkFail = "generate" THEN Raise(awaited, "CUDA out of memory")
        ELSE IF env.thinkFail = "decode" THEN Raise(generated, "tokenizer.decode failed")
        ELSE Return(generated, Value(env.reply))

\* the if/elif chain of edith_analyze, in its order
RULES ==
    << [name |-> "status",
        keys |-> <<"how are you", "status report", "condition">>,
        reply |-> "My core systems are operating within defined parameters. I am fully engaged and ready for high-level information processing."],
       [name |-> "security",
        keys |-> <<"security threat", "vulnerability", "risk assessment">>,
        reply |-> "Risk assessment initiated. While no immediate threats are detected, I recommend reviewing best practices for **"
                  \o USER_PROFILE.interests[3] \o "** to maintain network integrity."],
       [name |-> "friend",
        keys |-> <<"who is your friend", "who's your friend">>,
        reply |-> "That is easy. My friend and primary collaborator is **" \o USER_PROFILE.name \o "**."],
       [name |-> "creator",
        keys |-> <<"who created you", "your maker">>,
        reply |-> "My designation originates from my primary user and programmer, **" \o USER_PROFILE.name \o "**."],
       [name |-> "inspiration",
        keys |-> <<"inspire me", "motivate", "positive">>,
        reply |-> "Your current trajectory is optimal. Maintain focus on complex problem-solving. Success is the logical result of persistent effort."] >>

\* any(q in input_lower for q in keys)
RuleMatches(r, input_lower) ==
    \E k \in 1..Len(RULES[r].keys) : Contains(input_lower, RULES[r].keys[k])

MatchingRules(input_lower) == {r \in 1..Len(RULES) : RuleMatches(r, input_lower)}

\* SelectedRule with the chain tested in the reverse order
SelectedRuleLast(input_lower) ==
    LET rs == MatchingRules(input_lower)
    IN  IF rs = {} THEN 0 ELSE CHOOSE r \in rs : \A q \in rs : r >= q

\* the branch the chain takes: the first rule that matches, 0 for the else branch
SelectedRule(input_lower) ==
    LET rs == MatchingRules(input_lower)
    IN  IF rs = {} THEN 0 ELSE CHOOSE r \in rs : \A q \in rs : r <= q

\* edith_analyze with the brain consulted before the chain is tested
edith_analyze_brain_first(m, user_input, env) ==
    LET entered == Log(m, "analyze", user_input)
        r == SelectedRule(Lower(user_input))
        thought == think(entered, user_input, env)
        caught == Log([thought EXCEPT !.exc = "none"], "print",
                      "Error in edith_analyze: " \o thought.exc)
    IN  IF thought.exc # "none" THEN edith_speak(caught, InferenceErrorPrefix \o thought.exc, env)
        ELSE IF r # 0 THEN edith_speak(thought, RULES[r].reply, env)
        ELSE edith_speak(thought, thought.ret.text, env)

\* the body of the coroutine edith_analyze(user_input)
edith_analyze(m, user_input, env) ==
    LET entered == Log(m, "analyze", user_input)
        input_lower == Lower(user_input)
        r == SelectedRule(input_lower)
        thought == think(entered, user_input, env)
        caught == Log([thought EXCEPT !.exc = "none"], "print",
                      "Error in edith_analyze: " \o thought.exc)
    IN  IF r # 0 THEN edith_speak(entered, RULES[r].reply, env)
        ELSE IF thought.exc = "none" THEN edith_speak(thought, thought.ret.text, env)
        ELSE edith_speak(caught, InferenceErrorPrefix \o thought.exc, env)

ReportPrompts ==
    << "Hypothesis: The integration of quantum computing will reduce current processing time metrics by a factor of 10^9 within the next fiscal cycle. Key challenges involve qubit stability and environmental decoherence.",
       "Analytical Report: Observed data suggests a correlation between modular coding architecture and a 42% reduction in post-deployment critical failures. Standardization is mandatory for scaling.",
       "System Log Analysis: External API latency spike detected at 02:45 UTC, attributed to a transient network bottleneck on the European gateway. No data loss occurred, but redundancy protocols were activated." >>

ai_text_generation(m, pick, env) ==
    edith_speak(m, "**Analytical Synthesis Complete.** Displaying generated report: "
                   \o ReportPrompts[pick], env)

-----------------------------------------------------------------------------
(* Reminders *)

set_reminder(m, line, now, env) ==
    LET parts == SplitOnce(line, "task")
        task == IF Len(parts) > 1 THEN Strip(parts[2]) ELSE ""
        stored == [m EXCEPT !.reminders = Append(@, [task |-> task, timestamp |-> now.stamp])]
    IN  IF task # ""
        THEN edith_speak(stored, "Task **'" \o task \o "'** successfully logged at " \o now.stamp
                                 \o ". Priority set to standard.", env)
        ELSE edith_speak(m, "The task parameter is missing. Please state the command clearly, for example: 'set task review code'.", env)

ReminderLine(i, r) == "  " \o IntToStr(i) \o ": Logged " \o r.timestamp \o " - **" \o r.task \o "**"

RECURSIVE PrintReminders(_, _)
PrintReminders(m, i) ==
    IF i > Len(m.reminders) THEN m
    ELSE PrintReminders(Log(m, "print", ReminderLine(i, m.reminders[i])), i + 1)

view_reminders(m, env) ==
    LET spoken == edith_speak(m, "Displaying active task log:", env)
    IN  IF m.reminders = <<>>
        THEN edith_speak(m, "No active tasks are currently logged in the memory matrix.", env)
        ELSE IF spoken.exc # "none" THEN spoken
        ELSE PrintReminders(spoken, 1)

clear_reminders(m, env) ==
    IF m.reminders = <<>>
    THEN edith_speak(m, "Task log is empty. No action required.", env)
    ELSE edith_speak([m EXCEPT !.reminders = <<>>],
                     "All active tasks have been successfully purged from the log. Memory status: Clear.", env)

\* OPENWEATHERMAP_API_KEY is the placeholder, so the request is never made
get_weather(m, location_input, env) ==
    IF OPENWEATHERMAP_API_KEY = "YOUR_OPENWEATHERMAP_API_KEY_HERE"
    THEN edith_speak(m, "Weather module is currently uncalibrated. API key is missing. Please update the configuration file.", env)
    ELSE edith_speak(Log(m, "request", Replace(Strip(location_input), " ", "+")),
                     "Network connection failure. Unable to access external environmental data service.", env)

-----------------------------------------------------------------------------
(* The command map of start_edith_cli and the router *)

\* per name: is the value a lambda (__name__ == "<lambda>"), its co_argcount,
\* and whether asyncio.iscoroutinefunction holds for it
COMMANDS ==
    [help     |-> [lambda |-> FALSE, argcount |-> 0, coroutinefunction |-> FALSE],
     time     |-> [lambda |-> FALSE, argcount |-> 0, coroutinefunction |-> FALSE],
     status   |-> [lambda |-> TRUE,  argcount |-> 0, coroutinefunction |-> FALSE],
     generate |-> [lambda |-> TRUE,  argcount |-> 1, coroutinefunction |-> FALSE],
     view     |-> [lambda |-> TRUE,  argcount |-> 1, coroutinefunction |-> FALSE],
     clear    |-> [lambda |-> TRUE,  argcount |-> 1, coroutinefunction |-> FALSE],
     analyze  |-> [lambda |-> FALSE, argcount |-> 1, coroutinefunction |-> TRUE],
     weather  |-> [lambda |-> FALSE, argcount |-> 1, coroutinefunction |-> FALSE],
     search   |-> [lambda |-> FALSE, argcount |-> 1, coroutinefunction |-> FALSE],
     open     |-> [lambda |-> FALSE, argcount |-> 1, coroutinefunction |-> FALSE],
     set      |-> [lambda |-> TRUE,  argcount |-> 1, coroutinefunction |-> FALSE],
     exit     |-> [lambda |-> TRUE,  argcount |-> 0, coroutinefunction |-> FALSE],
     quit     |-> [lambda |-> TRUE,  argcount |-> 0, coroutinefunction |-> FALSE],
     shutdown |-> [lambda |-> TRUE,  argcount |-> 0, coroutinefunction |-> FALSE]]

Goodbye == "System shutdown initialized. Standby mode activated. Goodbye, " \o USER_PROFILE.name

\* calling edith_analyze(text) only creates the coroutine object
NewCoroutine(m, text) == Return(Log(Created(m, text), "coroutine", text), Coroutine(text))

\* one call COMMANDS[name](arg), the k-th made for the line; a nullary value
\* is called without arg
Call(name, m, arg, env, k) ==
    LET c == Log(m, "call", name)
    IN  CASE name = "help"     -> display_help(c)
          [] name = "time"     -> tell_date_time(c, env.clock[k], env)
          [] name = "status"   ->
                edith_speak(c, "Current operational status: **" \o USER_PROFILE.status_level
                               \o "**. All modules are functioning with "
                               \o IntToStr(env.rand[k]) \o "% efficiency.", env)
          [] name = "generate" ->
                IF arg = "report" THEN ai_text_generation(c, env.choice[k], env)
                ELSE NewCoroutine(c, "generate " \o arg)
          [] name = "view"     ->
                IF arg = "tasks" THEN view_reminders(c, env)
                ELSE NewCoroutine(c, "view " \o arg)
          [] name = "clear"    ->
                IF arg = "tasks" THEN clear_reminders(c, env)
                ELSE NewCoroutine(c, "clear " \o arg)
          [] name = "analyze"  -> NewCoroutine(c, arg)
          [] name = "weather"  -> get_weather(c, arg, env)
          [] name = "search"   -> search_web(c, arg, env)
          [] name = "open"     -> open_target(c, arg, env)
          [] name = "set"      ->
                IF StartsWith(arg, "task") THEN set_reminder(c, "set " \o arg, env.clock[k], env)
                ELSE NewCoroutine(c, "set " \o arg)
          [] name \in {"exit", "quit", "shutdown"} -> edith_speak(c, Goodbye, env)

\* Await with the coroutine handed to the event loop and not waited for
AwaitAsTask(m, env) ==
    IF m.exc # "none" THEN m
    ELSE IF m.ret.iscoro THEN Return(Log(Started(m), "await", m.ret.text), None)
    ELSE Raise(m, "TypeError: object can't be used in 'await' expression")

\* await x: runs the body when x is a coroutine object, to its end
Await(m, env) ==
    IF m.exc # "none" THEN m
    ELSE IF m.ret.iscoro
    THEN Dropped(edith_analyze(Log(Started(m), "await", m.ret.text), m.ret.text, env))
    ELSE Raise(m, "TypeError: object can't be used in 'await' expression")

\* `await edith_analyze(text)`: the object is created and awaited at once
AwaitCall(m, text, env) == Dropped(edith_analyze(Started(Created(m, text)), text, env))

\* `await f(x) if asyncio.iscoroutine(f(x)) else f(x)`: the test makes one
\* call, the selected branch makes another; a coroutine object made for the
\* test is a temporary that nothing awaits
CallLambda(name, m, arg, env) ==
    LET test == Call(name, m, arg, env, 1)
        tested == IF test.ret.iscoro THEN Dropped(test) ELSE test
        branch == Call(name, tested, arg, env, 2)
    IN  IF test.exc # "none" THEN test
        ELSE IF test.ret.iscoro THEN Await(branch, env)
        ELSE branch

\* the `if action in COMMANDS:` branch up to the terminal test
Invoke(name, m, argument, env) ==
    LET command_func == COMMANDS[name]
    IN  IF command_func.coroutinefunction THEN Await(Call(name, m, argument, env, 1), env)
        ELSE IF command_func.lambda
        THEN (IF command_func.argcount > 0 THEN CallLambda(name, m, argument, env)
              ELSE CallLambda(name, m, "", env))
        ELSE IF command_func.argcount > 0 THEN Call(name, m, argument, env, 1)
        ELSE Call(name, m, "", env, 1)

\* IsTerminal with only the first of the three names
IsTerminalOnlyExit(action) == action = "exit"

IsTerminal(action) == action \in {"exit", "quit", "shutdown"}

Action(line) == SplitOnce(line, " ")[1]

Argument(line) ==
    LET parts == SplitOnce(line, " ") IN IF Len(parts) > 1 THEN parts[2] ELSE ""

IsRegistered(action) == action \in DOMAIN COMMANDS

\* Route with the lookup made on the line instead of its first token
RouteWholeLine(m, line, env) ==
    IF IsRegistered(line) THEN Invoke(line, m, "", env)
    ELSE AwaitCall(Log(m, "fallback", line), line, env)

\* Route with the fallback given the remainder instead of the line
RouteRemainder(m, line, env) ==
    IF IsRegistered(Action(line)) THEN Invoke(Action(line), m, Argument(line), env)
    ELSE AwaitCall(Log(m, "fallback", line), Argument(line), env)

\* the try body of one iteration for a non-empty line
Route(m, line, env) ==
    IF IsRegistered(Action(line)) THEN Invoke(Action(line), m, Argument(line), env)
    ELSE AwaitCall(Log(m, "fallback", line), line, env)

-----------------------------------------------------------------------------
(* Inputs *)

\* what the user types or says
RawLines ==
    {"help", "Help me", "time", "status", "STATUS report",
     "generate report", "generate risk assessment",
     "view tasks", "view status report", "clear tasks", "clear positive thoughts",
     "analyze how are you", "analyze tell me about quantum gravity", "weather london", "search black holes",
     "open example.com", "open calculator", "open emacs",
     "set task buy milk", "SET task Review Code", "set task", "set", "set alarm",
     "exit", "Quit now", "shutdown",
     "how are you", "tell me about quantum gravity",
     "risk assessment and status report", "Who created you? Inspire me",
     " help", "settle the security threat", "", "   "}

\* `return command.lower().strip()` for each line that can be typed
Typed == [command \in RawLines |-> Strip(Lower(command))]

\* `return command.lower()` for each line that can be transcribed
Said == [command \in RawLines |-> Lower(command)]

\* the environment's choices that the handling of a line can observe
Envs(line) ==
    LET action == Action(line)
        resolver == ~IsRegistered(action) \/ action \in {"analyze", "generate", "view", "clear", "set"}
    IN  [ttsFailAt : IF tts THEN 0..MaxSpeakCalls ELSE {0},
         browserFail : IF action \in {"search", "open"} THEN BOOLEAN ELSE {FALSE},
         popenFail : IF action = "open" THEN BOOLEAN ELSE {FALSE},
         thinkFail : IF ready /\ resolver THEN ThinkFailures ELSE {"none"},
         reply : IF ready /\ resolver THEN GeneratedReplies ELSE {"I am not sure."},
         clock : IF action \in {"time", "set"} THEN [1..2 -> Now] ELSE {NoEnv.clock},
         os : IF action = "open" THEN OsNames ELSE {"linux"},
         rand : IF action = "status" THEN [1..2 -> 99..100] ELSE {NoEnv.rand},
         choice : IF action = "generate" THEN [1..2 -> 1..3] ELSE {NoEnv.choice}]

-----------------------------------------------------------------------------
(* The session loop *)

Init ==
    /\ pc = "start"
    /\ voice \in BOOLEAN
    /\ tts \in BOOLEAN
    /\ ready \in BOOLEAN
    /\ reminders = <<>>
    /\ chat_history = <<>>
    /\ heard = "none"
    /\ raw = ""
    /\ command_line = ""
    /\ events = <<>>
    /\ stop = ""
    /\ inflight = <<>>

\* greet_user(), before the loop and outside its try
Greet ==
    /\ pc = "start"
    /\ \E fail \in (IF tts THEN BOOLEAN ELSE {FALSE}) :
          /\ pc' = IF fail THEN "stopped" ELSE "listen"
          /\ stop' = IF fail THEN "crashed" ELSE ""
    /\ UNCHANGED <<voice, tts, ready, reminders, chat_history, heard, raw, command_line, events,
                    inflight>>

\* IsEmpty as a test for a missing value
IsEmptyNever(line) == FALSE

IsEmpty(line) == line = ""

\* `if not command_line: continue`
Acquired(how, typed, line, evs) ==
    /\ heard' = how
    /\ raw' = typed
    /\ command_line' = line
    /\ events' = evs
    /\ pc' = IF IsEmpty(line) THEN "listen" ELSE "dispatch"
    /\ stop' = ""

\* the except clause of the loop: report, speak, break
Critical(m, again) ==
    LET reported == Log([m EXCEPT !.exc = "none"], "print",
                        "An unhandled critical error occurred: " \o m.exc)
        spoken == Log(reported, "speak", "Critical system failure. Contact support.")
    IN  /\ events' = spoken.events
        /\ pc' = "stopped"
        /\ stop' = IF again THEN "crashed" ELSE "critical"

\* listen_for_command() with input() (VOICE_ENABLED is False)
ListenText ==
    /\ ~voice
    /\ \/ \E typed \in RawLines : Acquired("typed", typed, Typed[typed], <<>>)
       \/ Acquired("eof", "", "exit", <<>>)

\* listen_for_command() with the microphone and the recognizer
ListenVoice ==
    /\ voice
    /\ \/ \E said \in RawLines : Acquired("said", said, Said[said], <<>>)
       \/ Acquired("timeout", "", "", <<>>)
       \/ Acquired("unintelligible", "", "", <<>>)
       \/ \E fail \in (IF tts THEN BOOLEAN ELSE {FALSE}), again \in (IF tts THEN BOOLEAN ELSE {FALSE}) :
             LET spoken == Log(Ctx(reminders, chat_history), "speak",
                               "A network error occurred with the speech recognition service; recognition request failed")
             IN  IF fail
                 THEN /\ heard' = "request_error"
                      /\ raw' = ""
                      /\ command_line' = ""
                      /\ Critical(Raise(spoken, "RuntimeError: run loop already started"), again)
                 ELSE /\ ~again
                      /\ Acquired("request_error", "", "", spoken.events)

Listen ==
    /\ pc = "listen"
    /\ ListenText \/ ListenVoice
    /\ UNCHANGED <<voice, tts, ready, reminders, chat_history, inflight>>

\* the try body has run to its end, or to the exception it raised: the
\* stores hold what it left, and the loop breaks or goes on
Completed(m) ==
    /\ Len(m.reminders) <= MaxReminders
    /\ Len(m.hist) <= MaxHistory
    /\ reminders' = m.reminders
    /\ chat_history' = m.hist
    /\ inflight' = m.live
    /\ IF m.exc # "none"
       THEN \E again \in (IF tts THEN BOOLEAN ELSE {FALSE}) : Critical(m, again)
       ELSE /\ events' = m.events
            /\ pc' = IF IsTerminal(Action(command_line)) THEN "stopped" ELSE "listen"
            /\ stop' = IF IsTerminal(Action(command_line)) THEN "terminal" ELSE ""

\* the try body has run up to `await asyncio.to_thread(self.model.generate, ...)`:
\* start_edith_cli and the coroutine it awaits wait for the worker thread
Yielded(m) ==
    /\ events' = m.susp[1].events
    /\ inflight' = m.susp[1].live
    /\ pc' = "generating"
    /\ UNCHANGED <<reminders, chat_history, stop>>

\* one iteration of the loop from the split to the break, or to the point
\* where it is suspended
Dispatch ==
    /\ pc = "dispatch"
    /\ \E env \in Envs(command_line) :
          \E m \in {Route(Ctx(reminders, chat_history), command_line, env)} :
              IF m.susp # <<>> THEN Yielded(m) ELSE Completed(m)
    /\ UNCHANGED <<voice, tts, ready, heard, raw, command_line>>

\* the worker thread is done: the iteration goes on from the await of line 92
\* to the break
Resume ==
    /\ pc = "generating"
    /\ \E env \in Envs(command_line) :
          \E m \in {Route(Ctx(reminders, chat_history), command_line, env)} :
              /\ m.susp = <<[events |-> events, live |-> inflight]>>
              /\ Completed(m)
    /\ UNCHANGED <<voice, tts, ready, heard, raw, command_line>>

Next == Greet \/ Listen \/ Dispatch \/ Resume

Spec == Init /\ [][Next]_vars

-----------------------------------------------------------------------------
(* The resolver on its own: edith_analyze called once on a text *)

AllKeys == UNION {{RULES[r].keys[k] : k \in 1..Len(RULES[r].keys)} : r \in 1..Len(RULES)}

Phrases == AllKeys \cup {"Status Report", "YOUR MAKER", "quantum gravity"}

ResolverTexts == Phrases \cup {a \o " and " \o b : a \in Phrases, b \in Phrases}

InitResolver ==
    /\ pc = "resolve"
    /\ voice = FALSE
    /\ tts \in BOOLEAN
    /\ ready \in BOOLEAN
    /\ reminders = <<>>
    /\ chat_history = <<>>
    /\ heard = "none"
    /\ raw \in ResolverTexts
    /\ command_line = raw
    /\ events = <<>>
    /\ stop = ""
    /\ inflight = <<>>

Resolve ==
    /\ pc = "resolve"
    /\ \E env \in Envs(command_line) :
          \E m \in {edith_analyze(Ctx(reminders, chat_history), command_line, env)} :
              /\ events' = m.events
              /\ chat_history' = m.hist
              /\ stop' = IF m.exc # "none" THEN "raised" ELSE ""
    /\ pc' = "resolved"
    /\ UNCHANGED <<voice, tts, ready, reminders, heard, raw, command_line, inflight>>

NextResolver == Resolve

SpecResolver == InitResolver /\ [][NextResolver]_vars

-----------------------------------------------------------------------------
(* Properties of the router *)

RegisteredNames ==
    {"help", "time", "status", "generate", "view", "clear", "analyze", "weather",
     "search", "open", "set", "exit", "quit", "shutdown"}

\* the handling of command_line is over
Dispatched ==
    /\ pc \in {"listen", "stopped"}
    /\ heard \in {"typed", "said", "eof"}
    /\ command_line # ""

\* the step in which the handling of command_line comes to its end
Handled == pc \in {"dispatch", "generating"} /\ pc' # "generating"

RECURSIVE EventArgs(_, _)
EventArgs(evs, kind) ==
    IF evs = <<>> THEN <<>>
    ELSE (IF Head(evs).kind = kind THEN <<Head(evs).arg>> ELSE <<>>) \o EventArgs(Tail(evs), kind)

\* C1: a line whose first space-delimited token is a registered name, in any
\* casing, makes the router call the handler registered for that name, and no
\* other, and never take the fallback branch to the resolver.
C1_RegisteredNameInvokesItsHandler ==
    (Dispatched /\ heard \in {"typed", "said"}) =>
        \A name \in {Lower(Action(raw))} :
            name \in RegisteredNames =>
                /\ Count(events, "call") >= 1
                /\ \A i \in 1..Len(events) : events[i].kind = "call" => events[i].arg = name
                /\ Count(events, "fallback") = 0

C1_Witness ==
    /\ Dispatched
    /\ heard \in {"typed", "said"}
    /\ Lower(Action(raw)) \in RegisteredNames
    /\ Action(raw) # Lower(Action(raw))
    /\ Count(events, "call") >= 1

\* C2: a non-empty line whose first token is not a registered name makes the
\* router call edith_analyze exactly once, with the whole line and not its
\* remainder, and call no registered handler.
C2_UnregisteredLineGoesWholeToResolver ==
    (Dispatched /\ Action(command_line) \notin RegisteredNames) =>
        /\ EventArgs(events, "analyze") = <<command_line>>
        /\ Count(events, "fallback") = 1
        /\ Count(events, "call") = 0

C2_Witness ==
    /\ Dispatched
    /\ Action(command_line) \notin RegisteredNames
    /\ Argument(command_line) # ""
    /\ EventArgs(events, "analyze") = <<command_line>>

\* C3: a line whose first token is a registered command makes the router
\* execute the bound handler exactly once, whatever its arity and synchrony.
C3_HandlerRunsExactlyOnce ==
    (Dispatched /\ Action(command_line) \in RegisteredNames) => Count(events, "call") = 1

\* C4: a dispatched line 'set task T' with non-empty T appends exactly one
\* record, whose task is T, to the reminder list.
C4_SetTaskAppendsOneRecord ==
    [][(/\ pc = "dispatch"
        /\ StartsWith(command_line, "set task ")
        /\ Strip(SubSeq(command_line, 10, Len(command_line))) # ""
        /\ pc' = "listen")
       => (/\ Len(reminders') = Len(reminders) + 1
           /\ SubSeq(reminders', 1, Len(reminders)) = reminders
           /\ reminders'[Len(reminders')].task
                 = Strip(SubSeq(command_line, 10, Len(command_line))))]_vars

-----------------------------------------------------------------------------
(* Properties of the resolver *)

PriorityOrder == <<"status", "security", "friend", "creator", "inspiration">>

Priority(r) == CHOOSE i \in 1..Len(PriorityOrder) : PriorityOrder[i] = RULES[r].name

\* C5: a text that contains keywords of two or more rules is answered with
\* the reply of the matching rule that comes first in the order status,
\* security, friend, creator, inspiration, and with no later rule's reply;
\* the keywords are looked for in the lower-cased text.
C5_FirstMatchingRuleWins ==
    (pc = "resolved" /\ Cardinality(MatchingRules(Lower(command_line))) >= 2) =>
        LET matching == MatchingRules(Lower(command_line))
            first == CHOOSE r \in matching : \A q \in matching : Priority(r) <= Priority(q)
        IN  /\ Len(PriorityOrder) = Len(RULES)
            /\ EventArgs(events, "speak") = <<RULES[first].reply>>
            /\ \A q \in matching \ {first} : RULES[q].reply # RULES[first].reply

C5_Witness ==
    /\ pc = "resolved"
    /\ Cardinality(MatchingRules(Lower(command_line))) >= 2
    /\ command_line # Lower(command_line)
    /\ EventArgs(events, "speak") = <<RULES[4].reply>>

\* what the handling of a line did with the texts that reached edith_analyze
ResolverTextsOfStep == EventArgs(events', "analyze")

\* C6: when a text reaches the resolver, by the fallback, by `analyze` or by
\* the fall-through of set, view, clear or generate: if a rule keyword is a
\* substring of it the rule's reply is produced, think is not called and the
\* conversation history keeps its value; if none is, think is called exactly
\* once, with that text.
C6_RuleOrBrainExactlyOnce ==
    [][(Handled /\ Count(events', "analyze") > 0)
       => \A texts \in {ResolverTextsOfStep} :
             /\ Len(texts) = 1
             /\ \A matching \in {MatchingRules(Lower(texts[1]))} :
                   IF matching # {}
                   THEN /\ \E r \in matching : RULES[r].reply = EventArgs(events', "speak")[1]
                        /\ Count(events', "think") = 0
                        /\ chat_history' = chat_history
                   ELSE EventArgs(events', "think") = texts]_vars

\* a fall-through of a registered command reached think
C6_Witness ==
    /\ Dispatched
    /\ Count(events, "call") = 2
    /\ Count(events, "coroutine") = 2
    /\ Count(events, "think") = 1
    /\ chat_history # <<>>

\* the report of a generation failure that edith_analyze prints
GenerationFailed(evs) ==
    \E i \in 1..Len(evs) :
        evs[i] = Ev("print", "Error in edith_analyze: CUDA out of memory")

\* C7: when no rule matches and the brain failed to load, the resolver
\* replies with the fixed offline message; when the brain is loaded and
\* generation raises, it replies with another message that carries the cause;
\* in both cases nothing is raised, the conversation history keeps its value
\* and the loop goes on to the next line.
C7_BrainFailureIsReported ==
    [][(/\ Handled
        /\ EventArgs(events', "think") # <<>>
        /\ (~ready \/ GenerationFailed(events')))
       => (/\ IF ~ready
              THEN EventArgs(events', "speak") = <<OfflineMessage>>
              ELSE /\ EventArgs(events', "speak")
                        = <<InferenceErrorPrefix \o "CUDA out of memory">>
                   /\ InferenceErrorPrefix \o "CUDA out of memory" # OfflineMessage
           /\ chat_history' = chat_history
           /\ stop' = ""
           /\ pc' = "listen")]_vars

-----------------------------------------------------------------------------
(* Properties of the session loop *)

\* C8: a dispatched line whose first token is exit, quit or shutdown runs the
\* handler and stops the loop, after which no line is acquired or dispatched;
\* a line of another registered command whose handler raises nothing leaves
\* the loop waiting for the next line.
C8_TerminalStopsOthersContinue ==
    [][/\ Handled =>
             \A action \in {Action(command_line)} :
                /\ action \in {"exit", "quit", "shutdown"}
                      => (/\ pc' = "stopped"
                          /\ Count(events', "call") >= 1
                          /\ events'[1] = Ev("call", action))
                /\ (/\ action \in RegisteredNames \ {"exit", "quit", "shutdown"}
                    /\ stop' \notin {"critical", "crashed"})
                      => pc' = "listen"
       /\ pc = "stopped"
             => (pc' = "stopped" /\ heard' = heard /\ raw' = raw
                 /\ command_line' = command_line)]_vars

C8_Witness ==
    /\ pc = "stopped"
    /\ stop = "terminal"
    /\ Action(command_line) = "quit"
    /\ EventArgs(events, "speak") = <<Goodbye, Goodbye>>

\* C9: when the acquired line is empty (timeout, unintelligible audio, blank
\* entry), no handler and no resolver call is made, the reminder list and the
\* conversation history keep their values, and the loop acquires the next line.
C9_EmptyLineIsIgnored ==
    [][(pc = "listen" /\ stop' = "" /\ command_line' = "")
       => (/\ Count(events', "call") = 0
           /\ Count(events', "fallback") = 0
           /\ Count(events', "analyze") = 0
           /\ Count(events', "think") = 0
           /\ reminders' = reminders
           /\ chat_history' = chat_history
           /\ pc' = "listen")]_vars

\* a blank typed entry, or silence, with reminders stored
C9_Witness ==
    /\ pc = "listen"
    /\ command_line = ""
    /\ (heard = "timeout" \/ (heard = "typed" /\ raw = "   "))
    /\ reminders # <<>>
    /\ events = <<>>

\* C10: a failure raised by an external collaborator while a command is
\* handled never reaches the except clause of the loop, so it never ends the
\* loop.
C10_CollaboratorFailureStaysInside ==
    Dispatched => stop \notin {"critical", "crashed"}

\* C11: the bare line 'set' (an empty argument) makes the assistant report
\* the missing task parameter: that message is spoken, no reminder record is
\* added and the loop goes on to the next line.
C11_BareSetReportsMissingTask ==
    [][(Handled /\ command_line = "set")
       => (/\ \E i \in 1..Len(events') :
                 events'[i] = Ev("speak", "The task parameter is missing. Please state the command clearly, for example: 'set task review code'.")
           /\ reminders' = reminders
           /\ pc' # "stopped")]_vars

\* the texts that the handling of a line can give to edith_analyze
TextsOfLine(line) == {line, Argument(line), Action(line) \o " " \o Argument(line)}

\* C12: lines are handled one at a time in the order they arrive: a line is
\* acquired only when the loop is at its top, where nothing started for an
\* earlier line exists any more; while the generative call of a line is
\* awaited the loop acquires nothing, exactly one coroutine runs and it was
\* created for that line; and when the handling ends, no coroutine object
\* made for the line, the one of the lambda test included, is left to run
\* during or after a later line.
C12_OneCommandInFlightInOrder ==
    [][/\ pc # "listen" => (heard' = heard /\ raw' = raw /\ command_line' = command_line)
       /\ pc = "listen" => (inflight = <<>> /\ pc' \in {"listen", "dispatch", "stopped"})
       /\ pc = "dispatch" => pc' \in {"generating", "listen", "stopped"}
       /\ pc = "generating" => pc' \in {"listen", "stopped"}
       /\ pc' # "generating" => inflight' = <<>>
       /\ pc' = "generating" =>
             /\ Len(inflight') = 1
             /\ inflight'[1].running
             /\ inflight'[1].text \in TextsOfLine(command_line)
             /\ events'[Len(events')] = Ev("think", inflight'[1].text)]_vars

\* the generative call is awaited for a line of the lambda path, which made
\* two coroutine objects
C12_Witness ==
    /\ pc = "generating"
    /\ Count(events, "coroutine") = 2
    /\ Count(events, "await") = 1
    /\ inflight = <<[text |-> "set alarm", running |-> TRUE]>>
    /\ reminders # <<>>

====
